---- MODULE Spec2Model ----
(***************************************************************************)
(* Casualty dashboard (src/app.py): the Streamlit script as a state        *)
(* machine, and its engine functions as operators.                         *)
(*                                                                         *)
(* Numbers.  Python floats are modelled in fixed point: a real x is the    *)
(* integer floor(x * Unit), Unit = 10^4.  Slider values are multiples of   *)
(* 0.01 and therefore exact.  tanh, exp and the fractional powers are      *)
(* piecewise-linear interpolations of tables of the true function          *)
(* (error below 3e-3); products and quotients are floored to 10^-4.        *)
(* Counts of people (KIA, WIA, cumulative) are integers, as in the code,   *)
(* and daily figures are integers of tenths (round(x, 1)).                 *)
(***************************************************************************)
EXTENDS Integers, Sequences, FiniteSets, TLC

VARIABLES
    pc,      \* the module-level statement the script is at
    ns,      \* the module namespace: name -> value, for each name bound so far
    ui,      \* the st.* output calls made so far, in order
    error,   \* the uncaught exception that ended the run, or "none"
    divs,    \* every division evaluated so far: [site, divisor]
    frames,  \* the locals of each finished display_force call, by flag
    call     \* function harness: the last engine function applied, with its result

vars == <<pc, ns, ui, error, divs, frames, call>>

------------------------------------------------------------------------------
(* Fixed-point arithmetic *)

Unit == 100 * 100

Abs(x) == IF x < 0 THEN -x ELSE x
Max2(a, b) == IF a >= b THEN a ELSE b
Min2(a, b) == IF a <= b THEN a ELSE b

\* floor(a * b / Unit) for b >= 0, without forming a * b
MulPos(a, b) == (a \div Unit) * b + ((a % Unit) * b) \div Unit
MulU(a, b) == IF b >= 0 THEN MulPos(a, b) ELSE -MulPos(a, -b)

\* floor(a * Unit / b) for b > 0, without forming a * Unit
DivU(a, b) == (a \div b) * Unit + ((a % b) * Unit) \div b

\* Python round(): n / d rounded to the nearest integer, ties to even (n >= 0, d > 0)
RoundHalfEven(n, d) ==
    LET q == n \div d
        r == n % d
    IN  IF 2 * r < d THEN q
        ELSE IF 2 * r > d THEN q + 1
        ELSE IF q % 2 = 0 THEN q ELSE q + 1

\* round(a * b / d) for a, b >= 0 and d > 0, without forming a * b
RoundMulDiv(a, b, d) ==
    LET q == a \div d
        r == a % d
        whole == q * b + (r * b) \div d
        rem == (r * b) % d
    IN  IF 2 * rem < d THEN whole
        ELSE IF 2 * rem > d THEN whole + 1
        ELSE IF whole % 2 = 0 THEN whole ELSE whole + 1

\* table[1] is the value at 0, table[i + 1] the value at i * step; linear between
\* the knots and constant beyond the last one
Interp(table, step, x) ==
    LET i == x \div step
    IN  IF i + 1 >= Len(table) THEN table[Len(table)]
        ELSE table[i + 1] + ((table[i + 2] - table[i + 1]) * (x % step)) \div step

\* math.tanh at 0, 0.1, ..., 3.0
TanhTable ==
    << 0, 997, 1974, 2913, 3799, 4621, 5370, 6044, 6640, 7163, 7616,
       8005, 8337, 8617, 8854, 9051, 9217, 9354, 9468, 9562, 9640,
       9705, 9757, 9801, 9837, 9866, 9890, 9910, 9926, 9940, 9951 >>

Tanh(x) ==
    IF x >= 0 THEN Interp(TanhTable, 1000, x) ELSE -Interp(TanhTable, 1000, -x)

\* math.exp(-x) at 0, 0.05, ..., 0.8; the code only uses max(exp(-x), 0.50),
\* which every x beyond the table leaves at 0.50
ExpNegTable ==
    << 10000, 9512, 9048, 8607, 8187, 7788, 7408, 7047, 6703, 6376, 6065,
       5769, 5488, 5220, 4966, 4724, 4493 >>

ExpNeg(x) == Interp(ExpNegTable, 500, x)

\* x ** 1.1 and x ** 1.2 at 0, 0.05, ..., 1.2
Pow11Table ==
    << 0, 371, 794, 1241, 1703, 2176, 2660, 3151, 3650, 4155, 4665, 5181, 5701,
       6226, 6755, 7287, 7823, 8363, 8906, 9451, 10000, 10551, 11105, 11662, 12221 >>

Pow12Table ==
    << 0, 275, 631, 1026, 1450, 1895, 2358, 2837, 3330, 3836, 4353, 4880, 5417,
       5963, 6518, 7081, 7651, 8228, 8812, 9403, 10000, 10603, 11212, 11826, 12446 >>

Pow11(x) == Interp(Pow11Table, 500, x)
Pow12(x) == Interp(Pow12Table, 500, x)

\* x ** 1.05 at 0.5, 0.55, ..., 1.35 (the composition table keeps training in [0.55, 1.30])
Pow105Table ==
    << 4830, 5338, 5849, 6361, 6876, 7393, 7911, 8431, 8953, 9476, 10000,
       10526, 11053, 11581, 12110, 12640, 13172, 13704 >>

Pow105(x) == Interp(Pow105Table, 500, x - 5000)

\* dict.get(key, default)
Get(d, key, default) == IF key \in DOMAIN d THEN d[key] ELSE default

------------------------------------------------------------------------------
(* Utility functions, lines 8-18 *)

morale_scaling(m) == Unit + MulU(Tanh(2 * (m - Unit)), 8000)

logistic_scaling(l) == 5000 + l \div 2

medical_scaling(med, morale, logi) ==
    LET penalty == Unit + Pow11((12 * (Unit - med)) \div 10)
        morale_adj == Unit + (morale - Unit) \div 10
        compound == IF logi < 7500 THEN Unit + (15 * (Unit - logi)) \div 100 ELSE Unit
    IN  MulU(MulU(penalty, morale_adj), compound)

commander_scaling_steeper(cmd) == DivU(Unit, Unit + (4 * cmd) \div 10)

commander_scaling(cmd) == DivU(Unit, Unit + (3 * cmd) \div 10)

------------------------------------------------------------------------------
(* Force composition, lines 148-182 *)

composition_stats ==
    [ VDV |-> [cohesion |-> 12500, weapons |-> 11500, training |-> 13000],
      Armored |-> [cohesion |-> 11000, weapons |-> 12500, training |-> 11000],
      Mechanized |-> [cohesion |-> 10500, weapons |-> 11500, training |-> 10000],
      Artillery |-> [cohesion |-> 11000, weapons |-> 13000, training |-> 10000] ]
    @@ ( "CAS Air" :> [cohesion |-> 10000, weapons |-> 12000, training |-> 10500] )
    @@ ( "Engineer Units" :> [cohesion |-> 10000, weapons |-> 9500, training |-> 11000] )
    @@ ( "National Guard" :> [cohesion |-> 9500, weapons |-> 9000, training |-> 8500] )
    @@ ( "Storm-Z" :> [cohesion |-> 10000, weapons |-> 11000, training |-> 10000] )
    @@ ( "SOF" :> [cohesion |-> 12500, weapons |-> 12000, training |-> 13000] )
    @@ ( "EW Units" :> [cohesion |-> 11000, weapons |-> 10000, training |-> 11000] )
    @@ ( "Recon" :> [cohesion |-> 11500, weapons |-> 11000, training |-> 12000] )
    @@ ( "C4ISR Teams" :> [cohesion |-> 11000, weapons |-> 10500, training |-> 12500] )
    @@ ( "Infantry" :> [cohesion |-> 9000, weapons |-> 8000, training |-> 8500] )
    @@ ( "Territorial Defense" :> [cohesion |-> 7500, weapons |-> 7000, training |-> 6500] )
    @@ ( "Reservists" :> [cohesion |-> 7000, weapons |-> 6000, training |-> 5500] )
    @@ ( "Drone Units" :> [cohesion |-> 9000, weapons |-> 12500, training |-> 11000] )
    @@ ( "FPV Teams" :> [cohesion |-> 9500, weapons |-> 11000, training |-> 10500] )
    @@ ( "Foreign Legion" :> [cohesion |-> 11000, weapons |-> 10500, training |-> 11500] )

unit_stat_zero_default(unit, axis) == Get(Get(composition_stats, unit, << >>), axis, 0)

\* composition_stats.get(unit, {}).get(axis, 1)
unit_stat(unit, axis) == Get(Get(composition_stats, unit, << >>), axis, Unit)

RECURSIVE axis_sum(_, _)
axis_sum(selection, axis) ==
    IF selection = << >> THEN 0
    ELSE unit_stat(Head(selection), axis) + axis_sum(Tail(selection), axis)

aggregate_composition(selection) ==
    IF selection = << >> THEN << Unit, Unit, Unit >>
    ELSE LET n == Len(selection)
         IN  << axis_sum(selection, "cohesion") \div n,
                axis_sum(selection, "weapons") \div n,
                axis_sum(selection, "training") \div n >>

\* the divisors aggregate_composition evaluates on this selection
aggregate_composition_divs(selection) ==
    IF selection = << >> THEN {}
    ELSE {[site |-> "aggregate_composition: sum / n", divisor |-> Len(selection)]}

------------------------------------------------------------------------------
(* Force resilience and posture, lines 185-205 *)

force_resilience(moral, logi, cmd, cohesion, training) ==
    MulU(MulU(MulU(MulU(morale_scaling(moral), logistic_scaling(logi)),
                   Unit + cmd \div 5), cohesion), training)

\* adjusted_posture(posture, resilience, baseline=1.0); resilience # 0
adjusted_posture(posture, resilience) ==
    LET baseline == Unit
        offset == posture - Unit
        impact == MulU(offset, Unit - DivU(baseline, resilience))
    IN  Unit + Tanh(3 * impact) \div 4

------------------------------------------------------------------------------
(* Kill ratio and intensity mapping, lines 231-283.  actual_kill_ratio is kept *)
(* as the exact fraction num / den.                                           *)

kill_ratio_of(kill_ratio_slider) ==
    IF kill_ratio_slider = 0 THEN [num |-> 1, den |-> 1]
    ELSE IF kill_ratio_slider > 0 THEN [num |-> kill_ratio_slider, den |-> 1]
    ELSE [num |-> 1, den |-> Abs(kill_ratio_slider)]

kill_ratio_markdown(kill_ratio_slider) ==
    IF kill_ratio_slider = 0 THEN "markdown: Kill Ratio 1 : 1 (Neutral)"
    ELSE IF kill_ratio_slider > 0 THEN "markdown: Kill Ratio (Russian Advantage)"
    ELSE "markdown: Kill Ratio (Ukrainian Advantage)"

levels == (1 :> 20) @@ (2 :> 50) @@ (3 :> 100) @@ (4 :> 160) @@ (5 :> 220)

\* get_intensity_map(kill_ratio): (base_rus, base_ukr); intensity_level is the global
\* the function reads
get_intensity_map(kill_ratio, intensity_level) ==
    LET base == levels[intensity_level] * Unit
    IN  IF kill_ratio.num > kill_ratio.den
            THEN << base, (base * kill_ratio.num) \div kill_ratio.den >>
        ELSE IF kill_ratio.num < kill_ratio.den
            THEN << (base * kill_ratio.den) \div kill_ratio.num, base >>
        ELSE << base, base >>

get_intensity_map_divs(kill_ratio) ==
    IF kill_ratio.num < kill_ratio.den
        THEN {[site |-> "get_intensity_map: base / kill_ratio", divisor |-> kill_ratio.num]}
    ELSE {}

------------------------------------------------------------------------------
(* Weapon system shares, lines 312-332 *)

Systems ==
    << "Artillery", "Drones", "Snipers", "Small Arms", "Heavy Weapons",
       "Armored Vehicles", "Air Strikes" >>

SystemSet == {Systems[i] : i \in 1..Len(Systems)}

share_values ==
    ("Artillery" :> 6200) @@ ("Drones" :> 1300) @@ ("Snipers" :> 100)
    @@ ("Small Arms" :> 500) @@ ("Heavy Weapons" :> 400)
    @@ ("Armored Vehicles" :> 600) @@ ("Air Strikes" :> 900)

\* the checkbox of each system, by the name the sidebar binds it to
checkbox_of ==
    ("Artillery" :> "artillery_on") @@ ("Drones" :> "drones_on")
    @@ ("Snipers" :> "snipers_on") @@ ("Small Arms" :> "small_arms_on")
    @@ ("Heavy Weapons" :> "heavy_on") @@ ("Armored Vehicles" :> "armor_on")
    @@ ("Air Strikes" :> "airstrikes_on")

weapons_of(namespace) ==
    [s \in SystemSet |-> IF namespace[checkbox_of[s]] THEN share_values[s] ELSE 0]

RECURSIVE sum_values(_, _)
sum_values(d, keys) ==
    IF keys = {} THEN 0
    ELSE LET k == CHOOSE x \in keys : TRUE
         IN  d[k] + sum_values(d, keys \ {k})

\* sum(v[i] for v in d.values())
RECURSIVE sum_component(_, _, _)
sum_component(d, i, keys) ==
    IF keys = {} THEN 0
    ELSE LET k == CHOOSE x \in keys : TRUE
         IN  d[k][i] + sum_component(d, i, keys \ {k})

------------------------------------------------------------------------------
(* KIA / WIA logic, lines 338-366 *)

DOMINANCE_SCALING == 4500

\* lines 359-362: the dominance boost of calculate_kia_ratio
dominance_boost(dominance_mods) ==
    LET suppression_mod == Get(dominance_mods, "suppression_mod", Unit)
        boost == Unit + MulU(Unit - suppression_mod, DOMINANCE_SCALING)
    IN  Min2(Max2(boost, 8500), 12500)

\* line 356
survivability_of(morale, training, cohesion) ==
    LET train_bonus == Unit - (15 * (Unit - training)) \div 100
        cohesion_bonus == Unit - (Unit - cohesion) \div 10
        morale_bonus == Unit - (Unit - morale) \div 10
    IN  MulU(MulU(train_bonus, cohesion_bonus), morale_bonus)

\* line 365, before the clamp
kia_ratio_adjusted(med, logi, cmd, morale, training, cohesion, dominance_mods, base_slider) ==
    LET med_penalty == Pow12((12 * (Unit - med)) \div 10)
        logi_penalty == Unit - (2 * logi) \div 3
        cmd_bonus == cmd \div 4
        survivability == survivability_of(morale, training, cohesion)
    IN  DivU(MulU(MulU(base_slider, Unit + med_penalty + logi_penalty - cmd_bonus),
                  dominance_boost(dominance_mods)),
             survivability)

calculate_kia_ratio_med_inverted(med, logi, cmd, morale, training, cohesion, dominance_mods, base_slider) ==
    Min2(Max2(kia_ratio_adjusted(Unit - med, logi, cmd, morale, training, cohesion,
                                 dominance_mods, base_slider), 1000), 8500)

calculate_kia_ratio_floor_zero(med, logi, cmd, morale, training, cohesion, dominance_mods, base_slider) ==
    Min2(Max2(kia_ratio_adjusted(med, logi, cmd, morale, training, cohesion,
                                 dominance_mods, base_slider), 0), 8500)

calculate_kia_ratio(med, logi, cmd, morale, training, cohesion, dominance_mods, base_slider) ==
    Min2(Max2(kia_ratio_adjusted(med, logi, cmd, morale, training, cohesion,
                                 dominance_mods, base_slider), 1000), 8500)

------------------------------------------------------------------------------
(* Relative dominance, lines 370-406 (the definitions in force when *)
(* display_force runs; lines 21-54 are the same text)                *)

compute_relative_dominance(cmd_a, cmd_b, logi_a, logi_b, moral_a, moral_b) ==
    [cmd_delta |-> cmd_a - cmd_b,
     logi_delta |-> logi_a - logi_b,
     morale_delta |-> moral_a - moral_b]

compute_dominance_modifiers_unclamped(deltas) ==
    LET suppression_score == Get(deltas, "cmd_delta", 0) + Get(deltas, "logi_delta", 0)
        efficiency_score == Get(deltas, "morale_delta", 0) + Get(deltas, "ad_delta", 0)
                            + Get(deltas, "ew_delta", 0)
    IN  [suppression_mod |-> Unit + suppression_score \div 4,
         efficiency_mod |-> Unit + efficiency_score \div 5]

compute_dominance_modifiers(deltas) ==
    LET cmd_delta == Get(deltas, "cmd_delta", 0)
        logi_delta == Get(deltas, "logi_delta", 0)
        morale_delta == Get(deltas, "morale_delta", 0)
        ad_delta == Get(deltas, "ad_delta", 0)
        ew_delta == Get(deltas, "ew_delta", 0)
        suppression_score == cmd_delta + logi_delta
        efficiency_score == morale_delta + ad_delta + ew_delta
    IN  [suppression_mod |-> Unit + Max2(Min2(suppression_score \div 4, 2500), -2000),
         efficiency_mod |-> Unit + Max2(Min2(efficiency_score \div 5, 2000), -1500)]

------------------------------------------------------------------------------
(* KIA / WIA sanity and kill-ratio enforcement, lines 411-435 *)

enforce_kia_wia_sanity_identity(kia_min, kia_max, wia_min, wia_max) ==
    << wia_min, wia_max >>

enforce_kia_wia_sanity(kia_min, kia_max, wia_min, wia_max) ==
    << Max2(wia_min, kia_min), Max2(wia_max, kia_max) >>

enforce_kill_ratio_divs(rus_kia_range, ratio, kia_ratio_ukr) ==
    {[site |-> "enforce_kill_ratio: ukr_kia / kia_ratio_ukr", divisor |-> kia_ratio_ukr]}

enforce_kill_ratio_multiplied(rus_kia_range, ratio, kia_ratio_ukr) ==
    LET ukr_kia_min == RoundHalfEven(rus_kia_range[1] * ratio, 1)
        ukr_kia_max == RoundHalfEven(rus_kia_range[2] * ratio, 1)
        ukr_total_min == Max2(RoundMulDiv(ukr_kia_min, kia_ratio_ukr, Unit), ukr_kia_min + 1)
        ukr_total_max == Max2(RoundMulDiv(ukr_kia_max, kia_ratio_ukr, Unit), ukr_kia_max + 1)
    IN  << << ukr_kia_min, ukr_kia_max >>,
           << ukr_total_min - ukr_kia_min, ukr_total_max - ukr_kia_max >> >>

enforce_kill_ratio_unscaled(rus_kia_range, ratio, kia_ratio_ukr) ==
    LET ukr_kia_min == rus_kia_range[1]
        ukr_kia_max == rus_kia_range[2]
        ukr_total_min == Max2(RoundMulDiv(ukr_kia_min, Unit, kia_ratio_ukr), ukr_kia_min + 1)
        ukr_total_max == Max2(RoundMulDiv(ukr_kia_max, Unit, kia_ratio_ukr), ukr_kia_max + 1)
    IN  << << ukr_kia_min, ukr_kia_max >>,
           << ukr_total_min - ukr_kia_min, ukr_total_max - ukr_kia_max >> >>

\* returns <<(ukr_kia_min, ukr_kia_max), (ukr_wia_min, ukr_wia_max)>>; ratio is an
\* integer and kia_ratio_ukr a fixed-point fraction
enforce_kill_ratio(rus_kia_range, ratio, kia_ratio_ukr) ==
    LET ru_kia_min == rus_kia_range[1]
        ru_kia_max == rus_kia_range[2]
        ukr_kia_min == RoundHalfEven(ru_kia_min * ratio, 1)
        ukr_kia_max == RoundHalfEven(ru_kia_max * ratio, 1)
        ukr_total_min == Max2(RoundMulDiv(ukr_kia_min, Unit, kia_ratio_ukr), ukr_kia_min + 1)
        ukr_total_max == Max2(RoundMulDiv(ukr_kia_max, Unit, kia_ratio_ukr), ukr_kia_max + 1)
    IN  << << ukr_kia_min, ukr_kia_max >>,
           << ukr_total_min - ukr_kia_min, ukr_total_max - ukr_kia_max >> >>

------------------------------------------------------------------------------
(* Casualty calculation, lines 438-516 *)

StandOff == {"Artillery", "Air Strikes", "Drones"}

\* line 494
base_resistance_of(moral, logi, training) ==
    MulU(MulU(morale_scaling(moral), logistic_scaling(logi)), Pow105(training))

\* lines 493-496: decay_strength is kept in units of 10^-8
decay_curve_factor_of(duration, moral, logi, training) ==
    LET decay_strength == 35000 + (12000 * Tanh((duration * Unit) \div 800)) \div Unit
        exponent == DivU((decay_strength * duration) \div Unit,
                         base_resistance_of(moral, logi, training))
        decay_floor == 5000
    IN  Max2(ExpNeg(exponent), decay_floor)

\* lines 462-477
system_eff_of(system, duration, logi, s2s, ad_density, ad_ready, weapon_quality, efficiency_mod) ==
    LET system_scaling ==
            IF system = "Artillery" THEN MulU(logistic_scaling(logi), 9500)
            ELSE IF system = "Drones" THEN MulU(6500, Max2(9000, Unit - 2 * duration))
            ELSE Unit
        ew_penalty ==
            IF system = "Air Strikes" THEN Unit
            ELSE IF system = "Drones" THEN 7500 ELSE Unit
        ad_penalty ==
            IF system \in {"Drones", "Air Strikes"}
                THEN Min2(Max2(Unit - MulU(ad_density, ad_ready), 7500), 10500)
            ELSE Unit
        coordination ==
            IF system \in StandOff THEN Min2(Max2(s2s, 8500), 11000) ELSE Unit
        raw_eff == MulU(MulU(MulU(MulU(system_scaling, ew_penalty), ad_penalty),
                             coordination), weapon_quality)
        system_eff == Unit + MulU(Tanh(raw_eff - Unit), 6500)
    IN  Max2(MulU(system_eff, efficiency_mod), 3500)

\* lines 480-486
suppression_of(cmd, training, cohesion, suppression_mod) ==
    LET capped_training == Min2(training, 12000)
        capped_cohesion == Min2(cohesion, 11500)
        base_suppression == Unit - (300 + cmd \div 20)
        training_bonus == Unit + capped_training \div 20
        cohesion_factor == 9800 + (3 * capped_cohesion) \div 100
        dominance_amplifier == Unit + (Unit - suppression_mod) \div 2
    IN  MulU(MulU(MulU(MulU(base_suppression, training_bonus), cohesion_factor),
                  suppression_mod), dominance_amplifier)

\* lines 492-498: daily_base of one enabled system
daily_base_of(system, base_rate, base_share, modifier, duration, med, cmd, moral, logi, s2s, ad_density, ad_ready, weapon_quality, training, cohesion, suppression_mod, efficiency_mod) ==
    MulU(MulU(MulU(MulU(MulU(MulU(base_rate, base_share),
                             system_eff_of(system, duration, logi, s2s, ad_density,
                                           ad_ready, weapon_quality, efficiency_mod)),
                        modifier),
                   medical_scaling(med, moral, logi)),
              suppression_of(cmd, training, cohesion, suppression_mod)),
         decay_curve_factor_of(duration, moral, logi, training))

daily_range_of_swapped(daily_base) ==
    << RoundHalfEven(MulU(daily_base, 10500), 1000),
       RoundHalfEven(MulU(daily_base, 9500), 1000) >>

\* lines 499-500: (daily_min, daily_max), in tenths
daily_range_of(daily_base) ==
    << RoundHalfEven(MulU(daily_base, 9500), 1000),
       RoundHalfEven(MulU(daily_base, 10500), 1000) >>

\* lines 509-514: what the loop stores for one system (raw_wia is the WIA pair
\* before line 509)
system_entry(daily, duration, kia_min, kia_max, wia_min, wia_max) ==
    [results |-> daily,
     total |-> << RoundHalfEven(daily[1] * duration, 10),
                  RoundHalfEven(daily[2] * duration, 10) >>,
     kia |-> << kia_min, kia_max >>,
     raw_wia |-> << wia_min, wia_max >>,
     wia |-> enforce_kia_wia_sanity(kia_min, kia_max, wia_min, wia_max)]

system_row_wia_by_ratio(daily, duration, kia_ratio) ==
    system_entry(daily, duration,
                 RoundMulDiv(daily[1] * duration, kia_ratio, 10 * Unit),
                 RoundMulDiv(daily[2] * duration, kia_ratio, 10 * Unit),
                 RoundMulDiv(daily[1] * duration, kia_ratio, 10 * Unit),
                 RoundMulDiv(daily[2] * duration, kia_ratio, 10 * Unit))

\* lines 503-506
system_row(daily, duration, kia_ratio) ==
    system_entry(daily, duration,
                 RoundMulDiv(daily[1] * duration, kia_ratio, 10 * Unit),
                 RoundMulDiv(daily[2] * duration, kia_ratio, 10 * Unit),
                 RoundMulDiv(daily[1] * duration, Unit - kia_ratio, 10 * Unit),
                 RoundMulDiv(daily[2] * duration, Unit - kia_ratio, 10 * Unit))

\* the four mappings of line 516, from the entries of the enabled systems
casualty_mappings(rows) ==
    [results |-> [system \in DOMAIN rows |-> rows[system].results],
     total |-> [system \in DOMAIN rows |-> rows[system].total],
     kia_by_system |-> [system \in DOMAIN rows |-> rows[system].kia],
     wia_by_system |-> [system \in DOMAIN rows |-> rows[system].wia],
     raw_wia_by_system |-> [system \in DOMAIN rows |-> rows[system].raw_wia],
     warned |-> FALSE]

\* lines 446-516, given total_share and the dominance modifiers of lines 446-453
casualties_given(total_share, suppression_mod, efficiency_mod, base_rate, modifier, duration, med, cmd, moral, logi, s2s, ad_density, ad_ready, weapon_quality, training, cohesion, weapons, kia_ratio) ==
    IF total_share = 0
        THEN [results |-> << >>, total |-> << >>, kia_by_system |-> << >>,
              wia_by_system |-> << >>, raw_wia_by_system |-> << >>, warned |-> TRUE]
    ELSE casualty_mappings(
             [system \in {x \in DOMAIN weapons : weapons[x] # 0} |->
                 system_row(
                     daily_range_of(
                         daily_base_of(system, base_rate, DivU(weapons[system], total_share),
                                       modifier, duration, med, cmd, moral, logi,
                                       s2s, ad_density, ad_ready, weapon_quality,
                                       training, cohesion, suppression_mod, efficiency_mod)),
                     duration, kia_ratio)])

\* One call: the four mappings it returns, and whether it warned.  base_rate is
\* fixed point, duration in days, weapons the share of every system (0 when
\* disabled), kia_ratio fixed point.  Daily figures are in tenths.
calculate_casualties_range(base_rate, modifier, duration, ew_enemy, med, cmd, moral, logi, s2s, ad_density, ew_cover, ad_ready, weapon_quality, training, cohesion, weapons, deltas, kia_ratio) ==
    casualties_given(sum_values(weapons, DOMAIN weapons),
                     compute_dominance_modifiers(deltas)["suppression_mod"],
                     compute_dominance_modifiers(deltas)["efficiency_mod"],
                     base_rate, modifier, duration, med, cmd, moral, logi,
                     s2s, ad_density, ad_ready, weapon_quality, training, cohesion,
                     weapons, kia_ratio)

\* the divisors one call evaluates
calculate_casualties_range_divs(moral, logi, training, weapons) ==
    LET total_share == sum_values(weapons, DOMAIN weapons)
    IN  IF total_share = 0 THEN {}
        ELSE {[site |-> "calculate_casualties_range: share / total_share",
               divisor |-> total_share],
              [site |-> "calculate_casualties_range: / base_resistance",
               divisor |-> base_resistance_of(moral, logi, training)]}

------------------------------------------------------------------------------
(* display_force, lines 519-565, called with return_data=True: its locals, *)
(* and under "ret" the mapping it returns.  The opponent's values are read *)
(* from the module namespace, as in the code.                              *)

\* lines 527-534
force_deltas(flag, cmd, logi, moral) ==
    IF flag = "RU"
        THEN compute_relative_dominance(cmd, ns.cmd_ukr, logi, ns.logi_ukr,
                                        moral, ns.moral_ukr)
             @@ [ad_delta |-> ns.ad_density_rus - ns.ad_density_ukr,
                 ew_delta |-> ns.ew_cover_rus - ns.ew_cover_ukr]
    ELSE compute_relative_dominance(cmd, ns.cmd_rus, logi, ns.logi_rus,
                                    moral, ns.moral_rus)
         @@ [ad_delta |-> ns.ad_density_ukr - ns.ad_density_rus,
             ew_delta |-> ns.ew_cover_ukr - ns.ew_cover_rus]

\* lines 552-565: the totals and the returned mapping
force_frame(name, deltas, kia_ratio, ranges) ==
    [name |-> name,
     deltas |-> deltas,
     dominance_mods |-> compute_dominance_modifiers(deltas),
     kia_ratio |-> kia_ratio,
     daily_range |-> ranges.results,
     cumulative_range |-> ranges.total,
     kia_by_system |-> ranges.kia_by_system,
     wia_by_system |-> ranges.wia_by_system,
     raw_wia_by_system |-> ranges.raw_wia_by_system,
     warned |-> ranges.warned,
     total_min |-> sum_component(ranges.total, 1, DOMAIN ranges.total),
     total_max |-> sum_component(ranges.total, 2, DOMAIN ranges.total),
     ret |-> [kia_range |-> << sum_component(ranges.kia_by_system, 1, DOMAIN ranges.total),
                               sum_component(ranges.kia_by_system, 2, DOMAIN ranges.total) >>,
              wia_range |-> << sum_component(ranges.wia_by_system, 1, DOMAIN ranges.total),
                               sum_component(ranges.wia_by_system, 2, DOMAIN ranges.total) >>,
              kia_ratio |-> kia_ratio]]

\* lines 545-549, given the deltas and the KIA ratio
force_simulation(name, deltas, kia_ratio, base, exp, ew_enemy, cmd, moral, med, logi, duration, s2s, ad_dens, ew_cov, ad_ready, weapon_quality, training, cohesion, weapons) ==
    force_frame(name, deltas, kia_ratio,
                calculate_casualties_range(
                    base, MulU(MulU(exp, morale_scaling(moral)), logistic_scaling(logi)),
                    duration, ew_enemy, med, cmd, moral, logi, s2s, ad_dens, ew_cov,
                    ad_ready, weapon_quality, training, cohesion, weapons, deltas,
                    kia_ratio))

\* lines 537-549, given the deltas
force_with_deltas(name, deltas, base, exp, ew_enemy, cmd, moral, med, logi, duration, s2s, ad_dens, ew_cov, ad_ready, weapon_quality, training, cohesion, weapons, base_slider) ==
    force_simulation(name, deltas,
                     calculate_kia_ratio(med, logi, cmd, moral, training, cohesion,
                                         compute_dominance_modifiers(deltas), base_slider),
                     base, exp, ew_enemy, cmd, moral, med, logi, duration, s2s, ad_dens,
                     ew_cov, ad_ready, weapon_quality, training, cohesion, weapons)

display_force(flag, name, base, exp, ew_enemy, cmd, moral, med, logi, duration, enemy_exp, enemy_ew, s2s, ad_dens, ew_cov, ad_ready, weapon_quality, training, cohesion, weapons, base_slider) ==
    force_with_deltas(name, force_deltas(flag, cmd, logi, moral), base, exp, ew_enemy,
                      cmd, moral, med, logi, duration, s2s, ad_dens, ew_cov, ad_ready,
                      weapon_quality, training, cohesion, weapons, base_slider)

\* the divisors one display_force call evaluates
display_force_divs(moral, logi, training, cohesion, weapons) ==
    {[site |-> "calculate_kia_ratio: / survivability",
      divisor |-> survivability_of(moral, training, cohesion)]}
    \cup calculate_casualties_range_divs(moral, logi, training, weapons)

------------------------------------------------------------------------------
(* Scenarios: the widget values of one run.  Fractions are fixed point. *)

NumProfiles == 3
NumDurations == 2
NumWeaponSets == 3
MaxKillRatio == 2

ProfileList ==
    << \* every slider at its minimum, nothing selected
       [exp |-> 5000, ew |-> 1000, cmd |-> 0, med |-> 0, moral |-> 5000, logi |-> 5000,
        s2s |-> 5000, ad_density |-> 0, ew_cover |-> 0, ad_ready |-> 0, posture |-> 8000,
        composition |-> << >>],
       \* every slider at its maximum
       [exp |-> 15000, ew |-> 15000, cmd |-> 5000, med |-> 10000, moral |-> 15000,
        logi |-> 15000, s2s |-> 10000, ad_density |-> 10000, ew_cover |-> 10000,
        ad_ready |-> 10000, posture |-> 12000, composition |-> << "VDV", "SOF" >>],
       \* the Russian defaults of the sidebar
       [exp |-> 12500, ew |-> 11500, cmd |-> 4000, med |-> 7000, moral |-> 12500,
        logi |-> 12000, s2s |-> 9000, ad_density |-> 9000, ew_cover |-> 8000,
        ad_ready |-> 9500, posture |-> 10500,
        composition |-> << "VDV", "Armored", "Mechanized", "Artillery", "CAS Air",
                           "Engineer Units", "National Guard", "SOF", "Storm-Z",
                           "EW Units", "Recon", "C4ISR Teams" >>],
       \* the Ukrainian defaults of the sidebar
       [exp |-> 7500, ew |-> 4500, cmd |-> 1500, med |-> 4000, moral |-> 8000,
        logi |-> 7500, s2s |-> 6500, ad_density |-> 6000, ew_cover |-> 4000,
        ad_ready |-> 5000, posture |-> 9500,
        composition |-> << "Infantry", "Territorial Defense", "Reservists", "FPV Teams",
                           "Drone Units", "Engineer Units", "Foreign Legion", "SOF",
                           "Artillery", "Recon", "C4ISR Teams" >>],
       \* a neutral profile
       [exp |-> 10000, ew |-> 10000, cmd |-> 0, med |-> 10000, moral |-> 10000,
        logi |-> 10000, s2s |-> 10000, ad_density |-> 5000, ew_cover |-> 5000,
        ad_ready |-> 5000, posture |-> 10000, composition |-> << "Storm-Z" >>] >>

Profiles == {ProfileList[i] : i \in 1..Min2(NumProfiles, Len(ProfileList))}

\* values of the duration slider (30 to 1825 in steps of 7)
DurationList == << 30, 1031, 1822, 331 >>

Durations == {DurationList[i] : i \in 1..Min2(NumDurations, Len(DurationList))}

\* sets of enabled weapon systems
WeaponSetList ==
    << SystemSet, {}, {"Drones", "Air Strikes"}, {"Snipers"}, {"Artillery"} >>

WeaponSets == {WeaponSetList[i] : i \in 1..Min2(NumWeaponSets, Len(WeaponSetList))}

IntensityLevels == {1, 3, 5}

\* values of the "Est. KIA Ratio" slider (0.10 to 0.70)
KiaSliderValues == {1000, 4800, 7000}

KillRatioSliderValues == (0 - MaxKillRatio)..MaxKillRatio

\* the names the sidebar block (lines 73-145) binds
Sidebar(rus, ukr, duration, level, kia, enabled) ==
    [duration_days |-> duration, intensity_level |-> level,
     exp_rus |-> rus.exp, ew_rus |-> rus.ew, cmd_rus |-> rus.cmd, med_rus |-> rus.med,
     moral_rus |-> rus.moral, logi_rus |-> rus.logi,
     exp_ukr |-> ukr.exp, ew_ukr |-> ukr.ew, cmd_ukr |-> ukr.cmd, med_ukr |-> ukr.med,
     moral_ukr |-> ukr.moral, logi_ukr |-> ukr.logi,
     artillery_on |-> "Artillery" \in enabled, drones_on |-> "Drones" \in enabled,
     snipers_on |-> "Snipers" \in enabled, small_arms_on |-> "Small Arms" \in enabled,
     heavy_on |-> "Heavy Weapons" \in enabled, armor_on |-> "Armored Vehicles" \in enabled,
     airstrikes_on |-> "Air Strikes" \in enabled,
     s2s_rus |-> rus.s2s, s2s_ukr |-> ukr.s2s,
     ad_density_rus |-> rus.ad_density, ew_cover_rus |-> rus.ew_cover,
     ad_ready_rus |-> rus.ad_ready,
     ad_density_ukr |-> ukr.ad_density, ew_cover_ukr |-> ukr.ew_cover,
     ad_ready_ukr |-> ukr.ad_ready,
     kia_ratio |-> kia,
     composition_rus |-> rus.composition, composition_ukr |-> ukr.composition,
     posture_rus |-> rus.posture, posture_ukr |-> ukr.posture]

Sidebars ==
    {Sidebar(rus, ukr, duration, level, kia, enabled) :
        rus \in Profiles, ukr \in Profiles, duration \in Durations,
        level \in IntensityLevels, kia \in KiaSliderValues, enabled \in WeaponSets}

AllDisabled(namespace) == \A s \in SystemSet : ~namespace[checkbox_of[s]]

------------------------------------------------------------------------------
(* The preamble, lines 181-283: what each block binds, given the namespace *)
(* it runs in                                                              *)

\* lines 181-182
composition_bindings(n) ==
    LET rus == aggregate_composition(n.composition_rus)
        ukr == aggregate_composition(n.composition_ukr)
    IN  [coh_rus |-> rus[1], weapon_quality_rus |-> rus[2], train_rus |-> rus[3],
         coh_ukr |-> ukr[1], weapon_quality_ukr |-> ukr[2], train_ukr |-> ukr[3]]

composition_divs(n) ==
    aggregate_composition_divs(n.composition_rus)
    \cup aggregate_composition_divs(n.composition_ukr)

\* lines 192-193
resilience_bindings(n) ==
    [res_rus |-> force_resilience(n.moral_rus, n.logi_rus, n.cmd_rus, n.coh_rus, n.train_rus),
     res_ukr |-> force_resilience(n.moral_ukr, n.logi_ukr, n.cmd_ukr, n.coh_ukr, n.train_ukr)]

\* lines 204-205
posture_bindings(n) ==
    [posture_rus_adj |-> adjusted_posture(n.posture_rus, n.res_rus),
     posture_ukr_adj |-> adjusted_posture(n.posture_ukr, n.res_ukr)]

posture_divs(n) ==
    {[site |-> "adjusted_posture: baseline / resilience", divisor |-> n.res_rus],
     [site |-> "adjusted_posture: baseline / resilience", divisor |-> n.res_ukr]}

\* lines 234-245
kill_ratio_bindings(slider) ==
    [kill_ratio_slider |-> slider, actual_kill_ratio |-> kill_ratio_of(slider)]

kill_ratio_divs(slider) ==
    IF slider < 0
        THEN {[site |-> "actual_kill_ratio: 1.0 / abs(kill_ratio_slider)",
               divisor |-> Abs(slider)]}
    ELSE {}

\* lines 279-283
intensity_bindings(n) ==
    LET bases == get_intensity_map(n.actual_kill_ratio, n.intensity_level)
    IN  [base_rus |-> MulU(bases[1], n.posture_rus_adj),
         base_ukr |-> MulU(bases[2], n.posture_ukr_adj)]

\* the namespace and the divisions after lines 73-283, for one sidebar and slider
AfterPreamble(sidebar, slider) ==
    LET n1 == composition_bindings(sidebar) @@ sidebar
        n2 == resilience_bindings(n1) @@ n1
        n3 == posture_bindings(n2) @@ n2
        n4 == kill_ratio_bindings(slider) @@ n3
        n5 == intensity_bindings(n4) @@ n4
    IN  [ns |-> n5,
         divs |-> composition_divs(sidebar) \cup posture_divs(n2)
                  \cup kill_ratio_divs(slider)
                  \cup get_intensity_map_divs(n4.actual_kill_ratio),
         ui |-> << kill_ratio_markdown(slider) >>]

------------------------------------------------------------------------------
(* The script, statement by statement *)

NoCall == [fn |-> "none"]

\* a block of statements: an uncaught ZeroDivisionError ends the run, otherwise
\* the block binds its names and emits its output
Block(to, divisions, bindings, output) ==
    /\ divs' = divs \cup divisions
    /\ IF \E d \in divisions : d.divisor = 0
           THEN /\ pc' = "crashed"
                /\ error' = "ZeroDivisionError"
                /\ ns' = ns
                /\ ui' = ui
       ELSE /\ pc' = to
            /\ error' = error
            /\ ns' = bindings @@ ns
            /\ ui' = ui \o output

Init ==
    /\ pc = "composition"
    /\ ns \in Sidebars
    /\ ui = << >>
    /\ error = "none"
    /\ divs = {}
    /\ frames = << >>
    /\ call = NoCall

\* lines 181-182
AggregateComposition ==
    /\ pc = "composition"
    /\ Block("resilience", composition_divs(ns), composition_bindings(ns), << >>)
    /\ UNCHANGED << frames, call >>

\* lines 192-205
ResilienceAndPosture ==
    /\ pc = "resilience"
    /\ LET n == resilience_bindings(ns) @@ ns
       IN  Block("kill_ratio", posture_divs(n), posture_bindings(n) @@ n, << >>)
    /\ UNCHANGED << frames, call >>

\* lines 231-253: the slider's value is the user's
KillRatioSlider ==
    /\ pc = "kill_ratio"
    /\ \E slider \in KillRatioSliderValues :
           Block("intensity", kill_ratio_divs(slider), kill_ratio_bindings(slider),
                 << kill_ratio_markdown(slider) >>)
    /\ UNCHANGED << frames, call >>

\* lines 279-283
IntensityMapping ==
    /\ pc = "intensity"
    /\ Block("fragment", get_intensity_map_divs(ns.actual_kill_ratio),
             intensity_bindings(ns), << >>)
    /\ UNCHANGED << frames, call >>

\* lines 305-309: two expression statements left between the first definition of
\* enforce_kill_ratio and the weapon shares.  Line 306 reads results_rus, line 309
\* reads ukr_kia_range and uk; reading an unbound name raises NameError.
StrayOverride ==
    /\ pc = "fragment"
    /\ IF "results_rus" \notin DOMAIN ns
           THEN /\ error' = "NameError"
                /\ pc' = "crashed"
                /\ ns' = ns
       ELSE IF ~({"ukr_kia_range", "uk"} \subseteq DOMAIN ns)
           THEN /\ error' = "NameError"
                /\ pc' = "crashed"
                /\ ns' = [ru_kia_range |-> ns.results_rus.kia_range] @@ ns
       ELSE /\ error' = error
            /\ pc' = "weapons"
            /\ ns' = [ru_kia_range |-> ns.results_rus.kia_range] @@ ns
    /\ UNCHANGED << ui, divs, frames, call >>

\* Every run of the script: no statement after line 306 is reached.
Next ==
    \/ AggregateComposition
    \/ ResilienceAndPosture
    \/ KillRatioSlider
    \/ IntensityMapping
    \/ StrayOverride

Spec == Init /\ [][Next]_vars

------------------------------------------------------------------------------
(* The engine section, lines 311-724, from its first statement.  It starts *)
(* in the namespace the preamble has built.                                *)

InitEngine ==
    \E sidebar \in Sidebars, slider \in KillRatioSliderValues :
        LET start == AfterPreamble(sidebar, slider)
        IN  /\ pc = "weapons"
            /\ ns = start.ns
            /\ ui = start.ui
            /\ error = "none"
            /\ divs = start.divs
            /\ frames = << >>
            /\ call = NoCall

\* lines 322-335: with no system enabled the script warns and stops
WeaponShares ==
    /\ pc = "weapons"
    /\ LET weapons == weapons_of(ns)
           total_share == sum_values(weapons, DOMAIN weapons)
       IN  /\ ns' = [weapons |-> weapons, total_share |-> total_share] @@ ns
           /\ IF total_share = 0
                  THEN /\ ui' = Append(ui, "warning: Please enable at least one weapon system")
                       /\ pc' = "stopped"
              ELSE /\ ui' = ui
                   /\ pc' = "run_rus"
    /\ UNCHANGED << error, divs, frames, call >>

no_active_warning(frame) ==
    IF frame.warned THEN << "warning: No active weapon systems" >> ELSE << >>

\* lines 680-684
RunRussian ==
    /\ pc = "run_rus"
    /\ LET divisions == display_force_divs(ns.moral_rus, ns.logi_rus, ns.train_rus,
                                           ns.coh_rus, ns.weapons)
           frame == display_force("RU", "Russian", ns.base_rus, ns.exp_rus, ns.ew_ukr,
                        ns.cmd_rus, ns.moral_rus, ns.med_rus, ns.logi_rus, ns.duration_days,
                        ns.exp_ukr, ns.ew_rus, ns.s2s_rus, ns.ad_density_rus,
                        ns.ew_cover_rus, ns.ad_ready_rus, ns.weapon_quality_rus,
                        ns.train_rus, ns.coh_rus, ns.weapons, ns.kia_ratio)
       IN  IF \E d \in divisions : d.divisor = 0
               THEN /\ Block("run_ukr", divisions, << >>, << >>)
                    /\ frames' = frames
           ELSE /\ Block("run_ukr", divisions, [results_rus |-> frame.ret],
                         no_active_warning(frame))
                /\ frames' = ("RU" :> frame) @@ frames
    /\ UNCHANGED call

\* lines 687-691
RunUkrainian ==
    /\ pc = "run_ukr"
    /\ LET divisions == display_force_divs(ns.moral_ukr, ns.logi_ukr, ns.train_ukr,
                                           ns.coh_ukr, ns.weapons)
           frame == display_force("UA", "Ukrainian", ns.base_ukr, ns.exp_ukr, ns.ew_rus,
                        ns.cmd_ukr, ns.moral_ukr, ns.med_ukr, ns.logi_ukr, ns.duration_days,
                        ns.exp_rus, ns.ew_ukr, ns.s2s_ukr, ns.ad_density_ukr,
                        ns.ew_cover_ukr, ns.ad_ready_ukr, ns.weapon_quality_ukr,
                        ns.train_ukr, ns.coh_ukr, ns.weapons, ns.kia_ratio)
       IN  IF \E d \in divisions : d.divisor = 0
               THEN /\ Block("override", divisions, << >>, << >>)
                    /\ frames' = frames
           ELSE /\ Block("override", divisions, [results_ukr |-> frame.ret],
                         no_active_warning(frame))
                /\ frames' = ("UA" :> frame) @@ frames
    /\ UNCHANGED call

\* the Ukrainian override taken on any non-zero slider value
OverrideUkrainian_any_sign ==
    /\ pc = "override"
    /\ ns.kill_ratio_slider # 0
    /\ LET ru_kia_range == ns.results_rus.kia_range
           ratio == Abs(ns.kill_ratio_slider)
           override == enforce_kill_ratio(ru_kia_range, ratio, ns.results_ukr.kia_ratio)
           override_kia == override[1]
           override_wia == override[2]
           wia == enforce_kia_wia_sanity(override_kia[1], override_kia[2],
                                         override_wia[1], override_wia[2])
       IN  Block("done",
                 enforce_kill_ratio_divs(ru_kia_range, ratio, ns.results_ukr.kia_ratio),
                 [ru_kia_range |-> ru_kia_range,
                  override_kia |-> override_kia, override_wia |-> override_wia,
                  kia_min_ukr |-> override_kia[1], kia_max_ukr |-> override_kia[2],
                  wia_min_ukr |-> wia[1], wia_max_ukr |-> wia[2]],
                 << "header: Ukrainian Forces (Kill Ratio Adjusted)",
                    "metric: KIA Estimate", "metric: WIA Estimate",
                    "metric: KIA Ratio Used" >>)
    /\ UNCHANGED << frames, call >>

\* lines 694-706: Russian advantage, the Ukrainian figures are overridden
OverrideUkrainian ==
    /\ pc = "override"
    /\ ns.kill_ratio_slider > 0
    /\ LET ru_kia_range == ns.results_rus.kia_range
           ratio == Abs(ns.kill_ratio_slider)
           override == enforce_kill_ratio(ru_kia_range, ratio, ns.results_ukr.kia_ratio)
           override_kia == override[1]
           override_wia == override[2]
           wia == enforce_kia_wia_sanity(override_kia[1], override_kia[2],
                                         override_wia[1], override_wia[2])
       IN  Block("done",
                 enforce_kill_ratio_divs(ru_kia_range, ratio, ns.results_ukr.kia_ratio),
                 [ru_kia_range |-> ru_kia_range,
                  override_kia |-> override_kia, override_wia |-> override_wia,
                  kia_min_ukr |-> override_kia[1], kia_max_ukr |-> override_kia[2],
                  wia_min_ukr |-> wia[1], wia_max_ukr |-> wia[2]],
                 << "header: Ukrainian Forces (Kill Ratio Adjusted)",
                    "metric: KIA Estimate", "metric: WIA Estimate",
                    "metric: KIA Ratio Used" >>)
    /\ UNCHANGED << frames, call >>

\* lines 708-720: Ukrainian advantage, the Russian figures are overridden
OverrideRussian ==
    /\ pc = "override"
    /\ ~(ns.kill_ratio_slider > 0)
    /\ ns.kill_ratio_slider < 0
    /\ LET ukr_kia_range == ns.results_ukr.kia_range
           ratio == Abs(ns.kill_ratio_slider)
           override == enforce_kill_ratio(ukr_kia_range, ratio, ns.results_rus.kia_ratio)
           override_kia == override[1]
           override_wia == override[2]
           wia == enforce_kia_wia_sanity(override_kia[1], override_kia[2],
                                         override_wia[1], override_wia[2])
       IN  Block("done",
                 enforce_kill_ratio_divs(ukr_kia_range, ratio, ns.results_rus.kia_ratio),
                 [ukr_kia_range |-> ukr_kia_range,
                  override_kia |-> override_kia, override_wia |-> override_wia,
                  kia_min_rus |-> override_kia[1], kia_max_rus |-> override_kia[2],
                  wia_min_rus |-> wia[1], wia_max_rus |-> wia[2]],
                 << "header: Russian Forces (Kill Ratio Adjusted)",
                    "metric: KIA Estimate", "metric: WIA Estimate",
                    "metric: KIA Ratio Used" >>)
    /\ UNCHANGED << frames, call >>

\* lines 722-724: neutral, nothing is overridden
NeutralKillRatio ==
    /\ pc = "override"
    /\ ~(ns.kill_ratio_slider > 0)
    /\ ~(ns.kill_ratio_slider < 0)
    /\ pc' = "done"
    /\ UNCHANGED << ns, ui, error, divs, frames, call >>

NextEngine ==
    \/ WeaponShares
    \/ RunRussian
    \/ RunUkrainian
    \/ OverrideUkrainian
    \/ OverrideRussian
    \/ NeutralKillRatio

SpecEngine == InitEngine /\ [][NextEngine]_vars

------------------------------------------------------------------------------
(* The engine's pure functions, applied to inputs of their documented ranges *)

MaxSelection == 2
MaxDelta == 50

\* the commander-efficiency slider: 0.0 to 0.5 in steps of 0.01
CmdValues == {100 * c : c \in 0..50}

UnitTags == DOMAIN composition_stats \cup {"Militia"}

Selections == UNION {[1..n -> UnitTags] : n \in 0..MaxSelection}

DeltaKeys == {"cmd_delta", "logi_delta", "morale_delta", "ad_delta", "ew_delta"}

DeltaValues == {0 - MaxDelta * Unit, -5000, 1000, MaxDelta * Unit}

\* Scenario B: the two medical-support values
MedHigh == (9 * Unit) \div 10
MedLow == (3 * Unit) \div 10

InitFn ==
    /\ pc = "functions"
    /\ ns = << >>
    /\ ui = << >>
    /\ error = "none"
    /\ divs = {}
    /\ frames = << >>
    /\ call = NoCall

\* line 18, at two points of the slider
ApplyCommanderScaling ==
    /\ pc = "functions"
    /\ pc' = "returned"
    /\ \E a \in CmdValues, b \in CmdValues :
           call' = [fn |-> "commander_scaling", cmd |-> << a, b >>,
                    ret |-> << commander_scaling(a), commander_scaling(b) >>]
    /\ UNCHANGED << ns, ui, error, divs, frames >>

\* lines 383-406 and 359-362, on a mapping that may lack keys
ApplyDominanceModifiers ==
    /\ pc = "functions"
    /\ pc' = "returned"
    /\ \E keys \in SUBSET DeltaKeys :
           \E deltas \in [keys -> DeltaValues] :
               call' = [fn |-> "compute_dominance_modifiers", deltas |-> deltas,
                        ret |-> compute_dominance_modifiers(deltas),
                        boost |-> dominance_boost(compute_dominance_modifiers(deltas))]
    /\ UNCHANGED << ns, ui, error, divs, frames >>

\* lines 338-366 for two forces that differ in medical support only: their deltas
\* are all zero
ApplyKiaRatio ==
    /\ pc = "functions"
    /\ pc' = "returned"
    /\ \E base_slider \in KiaSliderValues, logi \in {5000, 7500, 10000, 15000},
          cmd \in {0, 2500, 5000}, morale \in {5000, 10000, 15000},
          selection \in {<< >>, << "Reservists" >>, << "VDV", "SOF" >>} :
           LET stats == aggregate_composition(selection)
               deltas == compute_relative_dominance(cmd, cmd, logi, logi, morale, morale)
                         @@ [ad_delta |-> 0, ew_delta |-> 0]
               mods == compute_dominance_modifiers(deltas)
           IN  call' = [fn |-> "calculate_kia_ratio",
                        base_slider |-> base_slider, logi |-> logi, cmd |-> cmd,
                        morale |-> morale, training |-> stats[3], cohesion |-> stats[1],
                        med |-> << MedHigh, MedLow >>,
                        ret |-> << calculate_kia_ratio(MedHigh, logi, cmd, morale, stats[3],
                                                       stats[1], mods, base_slider),
                                   calculate_kia_ratio(MedLow, logi, cmd, morale, stats[3],
                                                       stats[1], mods, base_slider) >>]
    /\ UNCHANGED << ns, ui, error, divs, frames >>

\* lines 169-179
ApplyAggregateComposition ==
    /\ pc = "functions"
    /\ pc' = "returned"
    /\ \E selection \in Selections :
           call' = [fn |-> "aggregate_composition", selection |-> selection,
                    ret |-> aggregate_composition(selection)]
    /\ UNCHANGED << ns, ui, error, divs, frames >>

\* the slider differences a pair of profiles can show on one axis, in steps of 0.25
SwapDeltaValues == {(Unit \div 4) * k : k \in -2..2}

\* lines 383-406 for the deltas of a pair of profiles and for the deltas of the
\* same pair swapped (lines 527-534: every delta negated)
ApplySwappedProfiles ==
    /\ pc = "functions"
    /\ pc' = "returned"
    /\ \E deltas \in [DeltaKeys -> SwapDeltaValues] :
           call' = [fn |-> "swapped_profiles", deltas |-> deltas,
                    ret |-> compute_dominance_modifiers(deltas),
                    swapped |-> compute_dominance_modifiers(
                                    [key \in DeltaKeys |-> 0 - deltas[key]])]
    /\ UNCHANGED << ns, ui, error, divs, frames >>

NextFn ==
    \/ ApplyCommanderScaling
    \/ ApplyDominanceModifiers
    \/ ApplyKiaRatio
    \/ ApplyAggregateComposition
    \/ ApplySwappedProfiles

SpecFn == InitFn /\ [][NextFn]_vars

------------------------------------------------------------------------------
(* Properties *)

Ended == pc \in {"done", "stopped", "crashed"}

NoResultState ==
    /\ pc = "stopped"
    /\ error = "none"
    /\ ui # << >>
    /\ ui[Len(ui)] = "warning: Please enable at least one weapon system"

NoFigures ==
    /\ "results_rus" \notin DOMAIN ns
    /\ "results_ukr" \notin DOMAIN ns
    /\ frames = << >>
    /\ \A d \in divs : d.site # "calculate_casualties_range: share / total_share"

\* C1: with every weapon system disabled, a run ends in the "no result" state
\* (the warning, then stop): no exception, no division by total_share, and no
\* casualty, KIA or WIA figure for either force.
C1_AllDisabledEndsInNoResult ==
    (Ended /\ AllDisabled(ns)) => (NoResultState /\ NoFigures)

\* C3 as stated: for every cmd in [0, 0.5], commander_scaling(cmd) lies in
\* (0.87, 1.0] and is strictly decreasing in cmd.
C3_CommanderScalingAbove087 ==
    call.fn = "commander_scaling" =>
        /\ \A i \in 1..2 : call.ret[i] > 8700 /\ call.ret[i] <= Unit
        /\ call.cmd[1] < call.cmd[2] => call.ret[1] > call.ret[2]

\* C3 as amended: for every cmd in [0, 0.5], commander_scaling(cmd) lies in
\* (0.869, 1.0] and is strictly decreasing in cmd; it is above 0.87 for every
\* cmd <= 0.49 and is 1/1.15 (about 0.8696) at cmd = 0.5.
C3_CommanderScalingAbove0869 ==
    call.fn = "commander_scaling" =>
        /\ \A i \in 1..2 :
               /\ call.ret[i] > 8690
               /\ call.ret[i] <= Unit
               /\ call.cmd[i] <= 4900 => call.ret[i] > 8700
               /\ call.cmd[i] = 5000 => call.ret[i] = 8695
        /\ call.cmd[1] < call.cmd[2] => call.ret[1] > call.ret[2]

C3_Witness ==
    /\ call.fn = "commander_scaling"
    /\ call.cmd = << 0, 5000 >>
    /\ call.ret = << Unit, 8695 >>

\* C4: whatever the deltas (any magnitude or sign, keys missing or not),
\* suppression_mod is within [0.80, 1.25] and efficiency_mod within
\* [0.85, 1.20], and the dominance boost of calculate_kia_ratio within
\* [0.85, 1.25].
C4_DominanceWithinBand ==
    call.fn = "compute_dominance_modifiers" =>
        /\ call.ret.suppression_mod >= 8000
        /\ call.ret.suppression_mod <= 12500
        /\ call.ret.efficiency_mod >= 8500
        /\ call.ret.efficiency_mod <= 12000
        /\ call.boost >= 8500
        /\ call.boost <= 12500

C4_Witness ==
    /\ call.fn = "compute_dominance_modifiers"
    /\ DOMAIN call.deltas = {"logi_delta", "morale_delta"}
    /\ call.deltas["logi_delta"] = MaxDelta * Unit
    /\ call.deltas["morale_delta"] = 0 - MaxDelta * Unit
    /\ call.ret.suppression_mod = 12500
    /\ call.ret.efficiency_mod = 8500

\* C7 as stated: of two forces identical except medical support 0.9 and 0.3,
\* the medical = 0.3 force has the strictly higher KIA ratio.
C7_LowMedicalStrictlyHigher ==
    call.fn = "calculate_kia_ratio" => call.ret[2] > call.ret[1]

\* C7 as amended: the medical = 0.3 force's KIA ratio is never lower than the
\* medical = 0.9 force's, and is strictly higher whenever the medical = 0.9
\* force's ratio is below the upper clamp 0.85; when both reach the clamp the
\* two ratios are equal (0.85).
C7_LowMedicalHigherBelowClamp ==
    call.fn = "calculate_kia_ratio" =>
        /\ call.ret[2] >= call.ret[1]
        /\ call.ret[1] < 8500 => call.ret[2] > call.ret[1]
        /\ call.ret[1] >= 8500 => (call.ret[1] = 8500 /\ call.ret[2] = 8500)

C7_Witness ==
    /\ call.fn = "calculate_kia_ratio"
    /\ call.ret[1] > 1000
    /\ call.ret[1] < call.ret[2]
    /\ call.ret[2] < 8500

\* the table value of a tag on an axis, 1 for a tag the table lacks
TableValue(tag, axis) ==
    IF tag \in DOMAIN composition_stats THEN composition_stats[tag][axis] ELSE Unit

RECURSIVE TableSum(_, _)
TableSum(selection, axis) ==
    IF selection = << >> THEN 0
    ELSE TableValue(Head(selection), axis) + TableSum(Tail(selection), axis)

AxisNames == << "cohesion", "weapons", "training" >>

\* C8: aggregate_composition returns (1, 1, 1) for an empty selection; otherwise
\* each axis is the arithmetic mean of the table values of the selected tags,
\* a tag absent from the table counting 1 on every axis; every coefficient
\* returned is positive.
C8_CompositionIsMean ==
    call.fn = "aggregate_composition" =>
        /\ call.selection = << >> => call.ret = << Unit, Unit, Unit >>
        /\ \A i \in 1..3 :
               LET n == Len(call.selection)
                   sum == TableSum(call.selection, AxisNames[i])
               IN  /\ call.ret[i] > 0
                   /\ n > 0 => (n * call.ret[i] <= sum /\ sum < n * call.ret[i] + n)

C8_Witness ==
    /\ call.fn = "aggregate_composition"
    /\ call.selection = << "Militia", "VDV" >>
    /\ call.ret = << 11250, 10750, 11500 >>

\* C9: a run follows the stated flow without a crash: no module-level
\* statement reads a name before the statement that binds it has run, and the
\* kill-ratio code reads results_rus only after display_force has produced it.
C9_NoNameReadBeforeBound ==
    /\ error = "none"
    /\ pc # "crashed"
    /\ "ru_kia_range" \in DOMAIN ns => "RU" \in DOMAIN frames

Flags == {"RU", "UA"}

WiaCoversKia(kia, wia) == wia[1] >= kia[1] /\ wia[2] >= kia[2]

\* C2: for each force the reported WIA range is component-wise at least the
\* reported KIA range: per weapon system, in the totals display_force returns,
\* and in the kill-ratio-adjusted figures.
C2_WiaAtLeastKia ==
    /\ \A flag \in DOMAIN frames :
           /\ \A system \in DOMAIN frames[flag].kia_by_system :
                  WiaCoversKia(frames[flag].kia_by_system[system],
                               frames[flag].wia_by_system[system])
           /\ WiaCoversKia(frames[flag].ret.kia_range, frames[flag].ret.wia_range)
    /\ "results_rus" \in DOMAIN ns =>
           WiaCoversKia(ns.results_rus.kia_range, ns.results_rus.wia_range)
    /\ "results_ukr" \in DOMAIN ns =>
           WiaCoversKia(ns.results_ukr.kia_range, ns.results_ukr.wia_range)
    /\ "kia_min_ukr" \in DOMAIN ns =>
           WiaCoversKia(<< ns.kia_min_ukr, ns.kia_max_ukr >>,
                        << ns.wia_min_ukr, ns.wia_max_ukr >>)
    /\ "kia_min_rus" \in DOMAIN ns =>
           WiaCoversKia(<< ns.kia_min_rus, ns.kia_max_rus >>,
                        << ns.wia_min_rus, ns.wia_max_rus >>)

\* a run in which the split alone would have put WIA below KIA, for a weapon
\* system of the Russian force and for the adjusted Ukrainian figures
C2_Witness ==
    /\ pc = "done"
    /\ "kia_min_ukr" \in DOMAIN ns
    /\ ns.override_wia[1] < ns.override_kia[1]
    /\ ns.wia_min_ukr >= ns.kia_min_ukr
    /\ ns.kia_min_ukr > 0
    /\ \E system \in DOMAIN frames["RU"].kia_by_system :
           /\ frames["RU"].raw_wia_by_system[system][2] < frames["RU"].kia_by_system[system][2]
           /\ frames["RU"].wia_by_system[system][2] >= frames["RU"].kia_by_system[system][2]

OverriddenUkr == "kia_min_ukr" \in DOMAIN ns \/ "wia_min_ukr" \in DOMAIN ns
OverriddenRus == "kia_min_rus" \in DOMAIN ns \/ "wia_min_rus" \in DOMAIN ns

\* C5: the kill-ratio override never applies to both sides in one run: with
\* slider R > 0 only the Ukrainian figures are overridden, with R < 0 only the
\* Russian ones, with R = 0 neither, and the organic KIA and WIA ranges of both
\* sides stay what display_force returned.
C5_OverrideOneSideOnly ==
    /\ ~(OverriddenUkr /\ OverriddenRus)
    /\ OverriddenUkr => ns.kill_ratio_slider > 0
    /\ OverriddenRus => ns.kill_ratio_slider < 0
    /\ pc = "done" =>
           /\ ns.kill_ratio_slider > 0 => OverriddenUkr
           /\ ns.kill_ratio_slider < 0 => OverriddenRus
           /\ ns.kill_ratio_slider = 0 => ~OverriddenUkr /\ ~OverriddenRus
           /\ ns.results_rus = frames["RU"].ret
           /\ ns.results_ukr = frames["UA"].ret

C5_Witness ==
    /\ pc = "done"
    /\ ns.kill_ratio_slider = 0
    /\ ~OverriddenUkr
    /\ ~OverriddenRus
    /\ ns.results_rus = frames["RU"].ret
    /\ ns.results_rus.kia_range[2] > 0
    /\ ns.results_ukr.wia_range[2] > 0

Scaled(adv_kia, overridden_kia, ratio) ==
    /\ overridden_kia[1] = adv_kia[1] * ratio
    /\ overridden_kia[2] = adv_kia[2] * ratio
    /\ overridden_kia[1] >= adv_kia[1]
    /\ overridden_kia[2] >= adv_kia[2]
    /\ overridden_kia[1] <= overridden_kia[2]

\* C6: with a non-zero slider R the disadvantaged side's overridden KIA range
\* is the advantaged side's organic KIA range times |R|, rounded, component by
\* component; it is never below the advantaged side's organic KIA, and its
\* minimum is at most its maximum.
C6_OverriddenKiaIsScaled ==
    pc = "done" =>
        /\ ns.kill_ratio_slider > 0 =>
               Scaled(frames["RU"].ret.kia_range, << ns.kia_min_ukr, ns.kia_max_ukr >>,
                      ns.kill_ratio_slider)
        /\ ns.kill_ratio_slider < 0 =>
               Scaled(frames["UA"].ret.kia_range, << ns.kia_min_rus, ns.kia_max_rus >>,
                      0 - ns.kill_ratio_slider)

C6_Witness ==
    /\ pc = "done"
    /\ ns.kill_ratio_slider = 0 - MaxKillRatio
    /\ frames["UA"].ret.kia_range[1] > 0
    /\ frames["UA"].ret.kia_range[1] < frames["UA"].ret.kia_range[2]
    /\ ns.kia_min_rus = MaxKillRatio * frames["UA"].ret.kia_range[1]
    /\ ns.kia_max_rus = MaxKillRatio * frames["UA"].ret.kia_range[2]

DivisionSites ==
    {"aggregate_composition: sum / n",
     "adjusted_posture: baseline / resilience",
     "actual_kill_ratio: 1.0 / abs(kill_ratio_slider)",
     "get_intensity_map: base / kill_ratio",
     "calculate_casualties_range: share / total_share",
     "calculate_casualties_range: / base_resistance",
     "calculate_kia_ratio: / survivability",
     "enforce_kill_ratio: ukr_kia / kia_ratio_ukr"}

\* C10: within the slider ranges no division has a zero divisor:
\* share / total_share only with total_share # 0, the composition mean only
\* with a non-empty selection, resilience > 0, kill_ratio > 0,
\* base_resistance > 0, and kia_ratio >= 0.10 in enforce_kill_ratio.
C10_NoZeroDivisor ==
    /\ error # "ZeroDivisionError"
    /\ \A d \in divs :
           /\ d.site \in DivisionSites
           /\ d.divisor > 0
           /\ d.site = "enforce_kill_ratio: ukr_kia / kia_ratio_ukr" => d.divisor >= 1000
           /\ d.site = "calculate_casualties_range: share / total_share" =>
                  ns.total_share # 0 /\ d.divisor = ns.total_share

C10_Witness ==
    /\ pc = "done"
    /\ error = "none"
    /\ \A site \in DivisionSites : \E d \in divs : d.site = site
    /\ \E d \in divs : d.site = "enforce_kill_ratio: ukr_kia / kia_ratio_ukr"
                       /\ d.divisor = 1000

\* the sliders of one side that the dominance comparison is about
SideInputs(flag) ==
    IF flag = "RU"
        THEN [cmd |-> ns.cmd_rus, logi |-> ns.logi_rus, moral |-> ns.moral_rus,
              ad_density |-> ns.ad_density_rus, ad_ready |-> ns.ad_ready_rus,
              ew_cover |-> ns.ew_cover_rus]
    ELSE [cmd |-> ns.cmd_ukr, logi |-> ns.logi_ukr, moral |-> ns.moral_ukr,
          ad_density |-> ns.ad_density_ukr, ad_ready |-> ns.ad_ready_ukr,
          ew_cover |-> ns.ew_cover_ukr]

Opponent(flag) == IF flag = "RU" THEN "UA" ELSE "RU"

OwnMinusOpponent(own, opp) ==
    [cmd_delta |-> own.cmd - opp.cmd,
     logi_delta |-> own.logi - opp.logi,
     morale_delta |-> own.moral - opp.moral,
     ad_delta |-> MulU(own.ad_density, own.ad_ready) - MulU(opp.ad_density, opp.ad_ready),
     ew_delta |-> own.ew_cover - opp.ew_cover]

\* C11: the deltas a force's computation uses are own minus opponent on all
\* five axes, the air-defense axis being density x readiness and the EW axis
\* EW coverage; the deltas of the two forces are each other's negation.
C11_DeltasOwnMinusOpponent ==
    /\ \A flag \in DOMAIN frames :
           frames[flag].deltas =
               OwnMinusOpponent(SideInputs(flag), SideInputs(Opponent(flag)))
    /\ DOMAIN frames = Flags =>
           \A key \in DeltaKeys :
               frames["RU"].deltas[key] = 0 - frames["UA"].deltas[key]

\* C12: the dominance transform is symmetric about 1: negating every delta
\* (swapping the two profiles) turns modifier - 1 into its negation, for
\* suppression_mod and for efficiency_mod, saturating scores included.
C12_TransformSymmetric ==
    call.fn = "swapped_profiles" =>
        /\ call.swapped.suppression_mod - Unit = 0 - (call.ret.suppression_mod - Unit)
        /\ call.swapped.efficiency_mod - Unit = 0 - (call.ret.efficiency_mod - Unit)

\* the adjusted figures of a finished run with a non-zero slider: the
\* overridden side's KIA pair, displayed WIA pair and own KIA ratio
Adjusted ==
    IF ns.kill_ratio_slider > 0
        THEN [kia |-> << ns.kia_min_ukr, ns.kia_max_ukr >>,
              wia |-> << ns.wia_min_ukr, ns.wia_max_ukr >>,
              r |-> frames["UA"].ret.kia_ratio]
    ELSE [kia |-> << ns.kia_min_rus, ns.kia_max_rus >>,
          wia |-> << ns.wia_min_rus, ns.wia_max_rus >>,
          r |-> frames["RU"].ret.kia_ratio]

HasAdjusted == pc = "done" /\ ns.kill_ratio_slider # 0

\* round(KIA' / r) - KIA', at least 1
RederivedWia(kia, r) == Max2(RoundMulDiv(kia, Unit, r) - kia, 1)

\* C13 as stated: the displayed WIA of the overridden side is
\* round(KIA' / r) - KIA' (at least 1) for its own KIA ratio r, for every r in
\* [0.10, 0.85] and for the min and the max component, so that KIA' + WIA' is
\* round(KIA' / r).
C13_WiaRederivedFromRatio ==
    HasAdjusted =>
        /\ Adjusted.r >= 1000
        /\ Adjusted.r <= 8500
        /\ \A i \in 1..2 : Adjusted.wia[i] = RederivedWia(Adjusted.kia[i], Adjusted.r)

\* C13 as amended: the displayed WIA of the overridden side is the larger of
\* round(KIA' / r) - KIA' (at least 1) and KIA'.  For r <= 0.5 it is the
\* re-derived value, so KIA' + WIA' is round(KIA' / r); for r > 0.5, whenever the
\* re-derived value is below KIA', the displayed WIA is KIA' itself and KIA' is
\* half of KIA' + WIA'.
C13_WiaRederivedThenRaised ==
    HasAdjusted =>
        /\ Adjusted.r >= 1000
        /\ Adjusted.r <= 8500
        /\ \A i \in 1..2 :
               LET kia == Adjusted.kia[i]
                   rederived == RederivedWia(kia, Adjusted.r)
               IN  /\ Adjusted.wia[i] = Max2(rederived, kia)
                   /\ Adjusted.r <= 5000 => Adjusted.wia[i] = rederived
                   /\ rederived < kia => (Adjusted.r > 5000 /\ Adjusted.wia[i] = kia)

C13_Witness ==
    /\ HasAdjusted
    /\ Adjusted.r < 5000
    /\ Adjusted.kia[1] > 0
    /\ Adjusted.kia[1] < Adjusted.kia[2]
    /\ \A i \in 1..2 :
           /\ Adjusted.wia[i] = RoundMulDiv(Adjusted.kia[i], Unit, Adjusted.r) - Adjusted.kia[i]
           /\ Adjusted.wia[i] > Adjusted.kia[i]

Within(a, b, tolerance) == Abs(a - b) <= tolerance

EnabledSystems(flag) == DOMAIN frames[flag].cumulative_range

FrameTotal(flag) == << frames[flag].total_min, frames[flag].total_max >>

\* C14 as stated: for each enabled weapon system and each component, reported
\* KIA + reported WIA equals the reported cumulative within 1, for every KIA
\* ratio in [0.10, 0.85]; for the force totals within 1 per enabled system.
C14_KiaWiaPartitionCumulative ==
    \A flag \in DOMAIN frames :
        /\ frames[flag].kia_ratio >= 1000
        /\ frames[flag].kia_ratio <= 8500
        /\ \A i \in 1..2 :
               /\ \A system \in EnabledSystems(flag) :
                      Within(frames[flag].kia_by_system[system][i]
                                 + frames[flag].wia_by_system[system][i],
                             frames[flag].cumulative_range[system][i], 1)
               /\ Within(frames[flag].ret.kia_range[i] + frames[flag].ret.wia_range[i],
                         FrameTotal(flag)[i], Cardinality(EnabledSystems(flag)))

\* C14 as amended: for each enabled weapon system and each component, KIA plus
\* the WIA of the split (round(daily x (1 - ratio) x duration)) equals the
\* reported cumulative within 1, and the reported WIA is the larger of that WIA
\* and KIA.  Reported KIA + reported WIA therefore equals the cumulative within
\* 1 (the totals within 1 per enabled system) when the ratio is at most 0.5;
\* when the split WIA is below KIA, which needs a ratio above 0.5, the reported
\* sum is 2 x KIA and is never below the cumulative by more than 1.
C14_PartitionBeforeSanity ==
    \A flag \in DOMAIN frames :
        /\ frames[flag].kia_ratio >= 1000
        /\ frames[flag].kia_ratio <= 8500
        /\ \A i \in 1..2 :
               /\ \A system \in EnabledSystems(flag) :
                      LET kia == frames[flag].kia_by_system[system][i]
                          raw_wia == frames[flag].raw_wia_by_system[system][i]
                          wia == frames[flag].wia_by_system[system][i]
                          cumulative == frames[flag].cumulative_range[system][i]
                      IN  /\ Within(kia + raw_wia, cumulative, 1)
                          /\ wia = Max2(raw_wia, kia)
                          /\ frames[flag].kia_ratio <= 5000 =>
                                 Within(kia + wia, cumulative, 1)
                          /\ raw_wia < kia =>
                                 /\ frames[flag].kia_ratio > 5000
                                 /\ kia + wia = 2 * kia
                          /\ kia + wia >= cumulative - 1
               /\ frames[flag].kia_ratio <= 5000 =>
                      Within(frames[flag].ret.kia_range[i] + frames[flag].ret.wia_range[i],
                             FrameTotal(flag)[i], Cardinality(EnabledSystems(flag)))

C14_Witness ==
    /\ "RU" \in DOMAIN frames
    /\ frames["RU"].kia_ratio < 5000
    /\ EnabledSystems("RU") = SystemSet
    /\ \A system \in SystemSet : frames["RU"].kia_by_system[system][1] > 0
    /\ \E system \in SystemSet :
           frames["RU"].kia_by_system[system][2] + frames["RU"].wia_by_system[system][2]
               # frames["RU"].cumulative_range[system][2]
    /\ Within(frames["RU"].ret.kia_range[2] + frames["RU"].ret.wia_range[2],
              frames["RU"].total_max, Cardinality(SystemSet))

Ordered(range) == 0 <= range[1] /\ range[1] <= range[2]

ResultMappings(flag) ==
    << frames[flag].daily_range, frames[flag].cumulative_range,
       frames[flag].kia_by_system, frames[flag].wia_by_system >>

\* C15: every reported range is well-ordered and non-negative (0 <= min <= max):
\* the daily, cumulative, KIA and WIA range of each enabled weapon system, the
\* force totals, and the KIA and WIA ranges after enforce_kill_ratio and
\* enforce_kia_wia_sanity; a disabled system has no entry in any result mapping.
C15_RangesOrdered ==
    /\ \A flag \in DOMAIN frames :
           /\ \A k \in 1..4 :
                  /\ DOMAIN ResultMappings(flag)[k]
                         = {system \in SystemSet : ns.weapons[system] # 0}
                  /\ \A system \in DOMAIN ResultMappings(flag)[k] :
                         Ordered(ResultMappings(flag)[k][system])
           /\ Ordered(FrameTotal(flag))
           /\ Ordered(frames[flag].ret.kia_range)
           /\ Ordered(frames[flag].ret.wia_range)
    /\ HasAdjusted => (Ordered(Adjusted.kia) /\ Ordered(Adjusted.wia))

C15_Witness ==
    /\ HasAdjusted
    /\ EnabledSystems("RU") = {"Drones", "Air Strikes"}
    /\ ns.weapons["Artillery"] = 0
    /\ \A k \in 1..4 :
           /\ "Artillery" \notin DOMAIN ResultMappings("UA")[k]
           /\ 0 < ResultMappings("UA")[k]["Drones"][1]
           /\ ResultMappings("UA")[k]["Drones"][1] < ResultMappings("UA")[k]["Drones"][2]
    /\ 0 < Adjusted.kia[1]
    /\ Adjusted.kia[1] < Adjusted.kia[2]
    /\ Adjusted.wia[1] < Adjusted.wia[2]

====
